---- MODULE Spec2Model ----
(***************************************************************************)
(* Model of the coordinator of Auro-rium/simulation-agent:                 *)
(*   orchestration/graph.py       the LangGraph state machine              *)
(*   orchestration/manager_run.py the driver that streams the graph        *)
(*   core/decision_aggregator.py  DecisionAggregator.aggregate             *)
(*                                                                         *)
(* The agents (planner, specialists, constraint, judgment, simulation) are *)
(* collaborators: every call either raises or returns a payload, chosen    *)
(* nondeterministically.  The graph state is a dict; a key that no node    *)
(* has written yet is absent from it, so state[k] raises KeyError and      *)
(* state.get(k, d) yields d.  The set `keys` holds the keys written so far.*)
(* Optional values are sequences of length <= 1 (<<>> is None).            *)
(* Confidence values are percentages (0..100).                             *)
(***************************************************************************)
EXTENDS Integers, Sequences, FiniteSets, TLC

\* ---------------------------------------------------------------- bounds
MaxSteps == 2
MaxTurnsInput == 2
MaxAggLen == 3
MaxRepeat == 8

\* ------------------------------------------------------- program constants
RetryLimit == 2
DefaultMaxTurns == 3
BaselineRisk == 3
AbortRiskMin == 8
AbortConfMin == 60

None == "None"

\* ------------------------------------------------------------ core/schemas
DecisionType == {"APPROVE", "REJECT", "MODIFY", "ESCALATE", "ABORT"}

RunStatus ==
  {"SUCCESS", "PARTIAL_SUCCESS", "DEGRADED_LLM", "CONSTRAINT_BLOCKED",
   "SIMULATION_INVALID", "SYSTEM_ERROR"}

Decision(dt, action, conf, risk, rationale) ==
  [decision_type |-> dt, recommended_action |-> action, confidence |-> conf,
   risk_score |-> risk, rationale_summary |-> rationale]

\* SpecialistDecision: decision / fault / signal are Optional fields.
SpecialistDecision(agent, decision, fault, signal) ==
  [agent |-> agent, decision |-> decision, fault |-> fault, signal |-> signal]

CompositeDecision(primary, consensus, sds) ==
  [primary_decision |-> primary, consensus_score |-> consensus,
   specialist_decisions |-> sds]

ConstraintResult(safe, warnings) ==
  [is_safe |-> safe, warnings |-> warnings]

JudgmentResult(approved, feedback, final) ==
  [is_approved |-> approved, feedback |-> feedback, final_decision |-> final]

SimulationResult(outcome, stability, turns, history) ==
  [outcome |-> outcome, stability_score |-> stability, turn_count |-> turns,
   history |-> history]

\* ------------------------------------------------ collaborator output sets
KnownRoles == {"SECURITY", "TECHNOLOGY", "ECONOMICS"}
Roles == KnownRoles \cup {"LOGISTICS"}

SeqsUpTo(S, n) == UNION {[1..k -> S] : k \in 0..n}

\* Decisions a specialist or the judgment agent may return.
AgentDecisions ==
  {Decision("APPROVE", "proceed", 50, 2, <<"ok">>),
   Decision("ABORT", "halt", 90, 9, <<"danger">>),
   Decision("ABORT", "stop", 70, 8, <<>>)}

Feedbacks == {"f1", "f2"}

\* ------------------------------------------- core/decision_aggregator.py
Min(a, b) == IF a < b THEN a ELSE b
Max(a, b) == IF a > b THEN a ELSE b

Take_all(s, n) == s

Take(s, n) == SubSeq(s, 1, Min(n, Len(s)))

RECURSIVE SumSeq(_)
SumSeq(s) == IF s = <<>> THEN 0 ELSE Head(s) + SumSeq(Tail(s))

HasDecision(sd) == sd.decision # <<>>
HasSignal(sd) == sd.signal # <<>>
HasFault(sd) == sd.fault # <<>>

\* Decision(...) validates confidence in [0,1] and risk_score in 0..10 and
\* at most 3 rationale entries; a violation raises ValidationError.
DecisionValid(d) ==
  /\ d.confidence >= 0 /\ d.confidence <= 100
  /\ d.risk_score >= 0 /\ d.risk_score <= 10
  /\ Len(d.rationale_summary) <= 3

Returned(v) == [raised |-> "", value |-> <<v>>]
Raised(e) == [raised |-> e, value |-> <<>>]

\* lines 19-50: degraded mode, fewer than two decisions and some signal
aggregate_degraded(specialist_decisions, valid_sds, signals) ==
  LET RiskOf(sd) == sd.decision[1].risk_score
      DeltaOf(sd) == sd.signal[1].inferred_risk_delta
      base_risk == IF valid_sds # <<>>
                   THEN SumSeq([i \in 1..Len(valid_sds) |-> RiskOf(valid_sds[i])]) \div Len(valid_sds)
                   ELSE BaselineRisk
      risk_delta == SumSeq([i \in 1..Len(signals) |-> DeltaOf(signals[i])])
      final_risk == Max(1, Min(7, base_risk + risk_delta))
      SignalLine(sd) == <<"Signal", sd.agent, sd.signal[1].summary_points>>
      rationale ==
        (IF valid_sds # <<>>
         THEN << <<"Primary", valid_sds[1].decision[1].recommended_action>> >>
         ELSE <<>>) \o [i \in 1..Len(signals) |-> SignalLine(signals[i])]
      primary == Decision("MODIFY", "Adaptive Response (Salvaged Intelligence)",
                          30 + 10 * Len(signals), final_risk, Take(rationale, 3))
  IN IF DecisionValid(primary)
     THEN Returned(CompositeDecision(primary, 40, specialist_decisions))
     ELSE Raised("ValidationError")

aggregate_no_data_abort(specialist_decisions, faults) ==
  Returned(CompositeDecision(
    Decision("ABORT", "System Degraded", 0, 10, <<>>), 0,
    specialist_decisions))

\* lines 52-65: no decision and no signal
aggregate_no_data(specialist_decisions, faults) ==
  LET FaultLine(sd) == <<"Fault", sd.fault[1].message>>
      first == Take(faults, 3)
      lines == [i \in 1..Len(first) |-> FaultLine(first[i])]
      primary ==
        Decision("MODIFY",
                 "System Degraded: Proceeding with conservative baseline.",
                 0, 0, IF lines # <<>> THEN lines ELSE << <<"No Data">> >>)
  IN Returned(CompositeDecision(primary, 0, specialist_decisions))

\* lines 67-145: at least one decision.  final_risk is bound only by the
\* ABORT branch (line 97), so line 106 raises UnboundLocalError when fewer
\* than two aborts qualify; low_risk_count (line 143) is bound nowhere, so
\* the ABORT branch raises NameError when the composite is built.
aggregate_standard(specialist_decisions, valid_sds, faults) ==
  LET IsValidAbort(sd) ==
        /\ sd.decision[1].decision_type = "ABORT"
        /\ sd.decision[1].risk_score >= AbortRiskMin
        /\ sd.decision[1].confidence >= AbortConfMin
      valid_aborts == SelectSeq(valid_sds, IsValidAbort)
  IN IF Len(valid_aborts) >= 2
     THEN Raised("NameError")
     ELSE Raised("UnboundLocalError")

aggregate(specialist_decisions) ==
  LET valid_sds == SelectSeq(specialist_decisions, HasDecision)
      signals == SelectSeq(specialist_decisions, HasSignal)
      faults == SelectSeq(specialist_decisions, HasFault)
  IN IF Len(valid_sds) < 2 /\ signals # <<>>
     THEN aggregate_degraded(specialist_decisions, valid_sds, signals)
     ELSE IF valid_sds = <<>>
     THEN aggregate_no_data(specialist_decisions, faults)
     ELSE aggregate_standard(specialist_decisions, valid_sds, faults)

\* ------------------------------------------------------- coordinator state
VARIABLES
  pc,                   \* node the graph runs next / position of manager_run
  keys,                 \* keys of CoordinatorState written so far
  context_max_turns,    \* context.get("max_turns"): <<>> when not given
  plan,                 \* ExecutionPlan.steps: the agent name of each step
  tasks,                \* run_step coroutines handed to asyncio.gather
  specialist_decisions,
  composite_decision,
  constraint_result,
  judgment_result,
  judgment_feedback,
  retry_count,
  sim,                  \* locals of the loop in node_simulation_run
  simulation_result,
  status,
  final_report,
  timestamps,           \* keys of the timestamps dict
  calls,                \* collaborator calls made so far, in order
  trace,                \* nodes of the graph executed so far, in order
  events,               \* types of the events passed to emit, in order
  runs_file,            \* the files under runs/: report_path and tmp_path
  control_stop,         \* control["stop"] of the UI worker
  q,                    \* types of the messages the worker put on its queue
  negotiation,          \* SimulationState of workflows/negotiation_graph.py
  llm,                  \* one call of LLMClient.generate_with_retries
  ret                   \* what manager_run returned or raised

vars ==
  <<pc, keys, context_max_turns, negotiation, llm, plan, tasks, specialist_decisions,
    composite_decision, constraint_result, judgment_result, judgment_feedback,
    retry_count, sim, simulation_result, status, final_report, timestamps,
    calls, trace, events, q, runs_file, control_stop, ret>>

\* state.get(k, d)
Get(k, v, d) == IF k \in keys THEN v ELSE d

\* A collaborator call either raises or returns a payload.
Outcomes(payloads) == {Raised("Exception")} \cup {Returned(v) : v \in payloads}

\* One entry of `calls`; outcome is "" when the call returned a valid payload.
\* For constraint, feedback is the
\* feedback passed in; for judgment, constraint is the constraint output
\* passed in and approved / feedback are what the call returned.
Call(agent, step, feedback, constraint, outcome, approved) ==
  [agent |-> agent, step |-> step, feedback |-> feedback,
   constraint |-> constraint, outcome |-> outcome, approved |-> approved]

NoConstraint == ConstraintResult(FALSE, "unset")
NoJudgment == JudgmentResult(FALSE, None, <<>>)
NoSim == [i |-> 0, outcome |-> "IN_PROGRESS"]

\* the negotiation graph and the LLM client are not used by a coordinator run
NoNegotiation ==
  [pc |-> "idle", actors |-> <<>>, current_actor |-> None, turn_count |-> 0,
   max_turns |-> 0, history |-> <<>>, final_result |-> <<>>]

NoAttempt == [called |-> FALSE, generated |-> FALSE, wrote |-> FALSE]

NoLlm ==
  [pc |-> "idle", retries |-> 0, attempt |-> 0, cur |-> NoAttempt,
   attempts |-> <<>>, cache |-> "absent",
   last_exception |-> [kind |-> None, attempt |-> 0],
   ret |-> [kind |-> "running", attempt |-> 0]]

\* manager_run lines 150-155: the two paths under runs/
NoFiles == [report_path |-> "absent", tmp_path |-> "absent"]

\* An event handed to emit: its type and its payload (<<>> is None).
Event(type, payload) == [type |-> type, payload |-> payload]

\* ui/_worker.py lines 21-77: the messages the callback puts on the queue
\* for one event.  With the stop flag set it raises InterruptedError before
\* putting anything; a plan event without payload raises AttributeError.
\* Both are caught by emit (manager_run lines 42-48), so nothing is put.
progress_callback(event) ==
  IF control_stop THEN <<>>
  ELSE IF event.type = "status" THEN <<"turn">>
  ELSE IF event.type = "plan"
  THEN IF event.payload = <<>> THEN <<>>
       ELSE <<"turn">> \o [i \in 1..Len(event.payload[1]) |-> "turn"]
  ELSE IF event.type = "specialist_done" THEN <<"card_update", "turn">>
  ELSE IF event.type = "constraint" THEN <<"turn">>
  ELSE IF event.type = "turn" THEN <<"turn", "turn", "timeline_update">>
  ELSE IF event.type = "done" THEN <<"done">>
  ELSE <<>>

RECURSIVE Delivered(_)
Delivered(evs) ==
  IF evs = <<>> THEN <<>>
  ELSE progress_callback(Head(evs)) \o Delivered(Tail(evs))

\* manager_run lines 85-89: the specialists update has no key
\* "specialist_outputs" (the node returns "specialist_decisions"), so the
\* loop that emits specialist_done runs over the default [].
specialist_outputs == <<>>

specialists_events ==
  <<Event("status", <<>>)>>
  \o [i \in 1..Len(specialist_outputs) |->
        Event("specialist_done", <<specialist_outputs[i]>>)]

emit_drop_after_raise(evs) ==
  /\ events' = IF control_stop THEN events
               ELSE events \o [i \in 1..Len(evs) |-> evs[i].type]
  /\ q' = q \o Delivered(evs)

\* manager_run lines 33-48: emit, once per event of evs in order
emit(evs) ==
  /\ events' = events \o [i \in 1..Len(evs) |-> evs[i].type]
  /\ q' = q \o Delivered(evs)

\* manager_run lines 29-63: initial_state has request, context, seed,
\* run_id, timestamps {"start"} and turn_count (the other keys it passes are
\* not channels of CoordinatorState).
Init ==
  /\ pc = "plan"
  /\ keys = {"request", "context", "seed", "run_id", "timestamps", "turn_count"}
  /\ context_max_turns \in {<<>>} \cup {<<n>> : n \in 0..MaxTurnsInput}
  /\ plan = <<>>
  /\ tasks = <<>>
  /\ specialist_decisions = <<>>
  /\ composite_decision = <<>>
  /\ constraint_result = NoConstraint
  /\ judgment_result = NoJudgment
  /\ judgment_feedback = None
  /\ retry_count = 0
  /\ sim = NoSim
  /\ simulation_result = <<>>
  /\ status = "unset"
  /\ final_report = <<>>
  /\ timestamps = {"start"}
  /\ calls = <<>>
  /\ trace = <<>>
  /\ events = <<"status">>
  /\ runs_file = NoFiles
  /\ control_stop = FALSE
  /\ q = <<"turn", "turn">>
  /\ negotiation = NoNegotiation
  /\ llm = NoLlm
  /\ ret = "running"

\* An exception of a node leaves astream and manager_run (no handler).
Raise(e) ==
  /\ pc' = "raised"
  /\ ret' = e

\* ------------------------------------------------------------ node_plan
PlannerOutcomes == Outcomes(SeqsUpTo(Roles, MaxSteps))

node_plan ==
  /\ pc = "plan"
  /\ trace' = Append(trace, "plan")
  /\ \E res \in PlannerOutcomes :
       /\ calls' = Append(calls, Call("planner", 0, None, NoConstraint, res.raised, FALSE))
       /\ IF res.raised # ""
          THEN /\ status' = "SYSTEM_ERROR"
               /\ keys' = keys \cup {"status"}
               /\ UNCHANGED <<plan, timestamps>>
          ELSE /\ plan' = res.value[1]
               /\ timestamps' = timestamps \cup {"plan_done"}
               /\ keys' = keys \cup {"plan", "timestamps"}
               /\ UNCHANGED status
  /\ emit(<<Event("status", <<>>),
            Event("plan", IF "plan" \in keys' THEN <<plan'>> ELSE <<>>)>>)
  /\ pc' = "specialists"
  /\ UNCHANGED <<context_max_turns, negotiation, llm, tasks, specialist_decisions,
                 composite_decision, constraint_result, judgment_result,
                 judgment_feedback, retry_count, sim, simulation_result,
                 final_report, runs_file, control_stop, ret>>

\* ------------------------------------------------------ node_specialists
\* What an agent's run() may hand back as res["decision"]: a well-formed
\* Decision or one that Decision(**decision_data) rejects.
EvaluatorPayloads ==
  AgentDecisions \cup {Decision("APPROVE", "proceed", 50, 11, <<"ok">>)}

EvaluatorOutcomes == Outcomes(EvaluatorPayloads)

\* lines 85-88: the agent is picked by substring of step.agent.upper()
HasAgent(agent_name) == agent_name \in KnownRoles

run_step_fault_too(agent_name, res) ==
  IF HasAgent(agent_name) /\ res.raised = "" /\ DecisionValid(res.value[1])
  THEN SpecialistDecision(agent_name, <<res.value[1]>>, <<>>, <<>>)
  ELSE SpecialistDecision(agent_name,
         <<Decision("ABORT", "Agent Error", 0, 10, <<"str(e)">>)>>,
         <<[fault_type |-> "SYSTEM_ERROR", message |-> "str(e)"]>>, <<>>)

\* lines 83-122: the SpecialistDecision of one step, given what the agent's
\* run() did (res is ignored when no agent matches the step).
run_step(agent_name, res) ==
  IF HasAgent(agent_name)
  THEN IF res.raised = "" /\ DecisionValid(res.value[1])
       THEN SpecialistDecision(agent_name, <<res.value[1]>>, <<>>, <<>>)
       ELSE SpecialistDecision(agent_name,
              <<Decision("ABORT", "Agent Error", 0, 10, <<"str(e)">>)>>,
              <<>>, <<>>)
  ELSE SpecialistDecision(agent_name,
         <<Decision("ABORT", "Unknown Agent", 0, 10, <<"Configuration Error">>)>>,
         <<>>, <<>>)

Pending == [done |-> FALSE, result |-> <<>>]

\* lines 77-81, 124-125: read the plan, return at once without steps,
\* otherwise create one run_step coroutine per step and await gather.
node_specialists ==
  /\ pc = "specialists"
  /\ trace' = Append(trace, "specialists")
  /\ IF "plan" \notin keys
     THEN /\ Raise("KeyError")
          /\ UNCHANGED <<keys, tasks, specialist_decisions, events, q>>
     ELSE IF plan = <<>>
     THEN /\ specialist_decisions' = <<>>
          /\ keys' = keys \cup {"specialist_decisions"}
          /\ emit(specialists_events)
          /\ pc' = "aggregate"
          /\ UNCHANGED <<tasks, ret>>
     ELSE /\ tasks' = [i \in 1..Len(plan) |-> Pending]
          /\ pc' = "gather"
          /\ UNCHANGED <<keys, specialist_decisions, events, q, ret>>
  /\ UNCHANGED <<context_max_turns, negotiation, llm, plan, composite_decision,
                 constraint_result, judgment_result, judgment_feedback,
                 retry_count, sim, simulation_result, status, final_report,
                 timestamps, calls, runs_file, control_stop>>

\* One run_step coroutine runs to completion: the agent call (if the step
\* has an agent) returns or raises and the SpecialistDecision is built.
run_step_settle(i) ==
  /\ pc = "gather"
  /\ i \in 1..Len(tasks)
  /\ ~tasks[i].done
  /\ \E res \in EvaluatorOutcomes :
       /\ tasks' = [tasks EXCEPT ![i] =
                      [done |-> TRUE, result |-> <<run_step(plan[i], res)>>]]
       /\ calls' = IF HasAgent(plan[i])
                   THEN Append(calls, Call(plan[i], i, None, NoConstraint,
                          IF res.raised = "" /\ ~DecisionValid(res.value[1])
                          THEN "ValidationError" ELSE res.raised, FALSE))
                   ELSE calls
  /\ UNCHANGED <<trace, pc, keys, context_max_turns, negotiation, llm, plan, specialist_decisions,
                 composite_decision, constraint_result, judgment_result,
                 judgment_feedback, retry_count, sim, simulation_result,
                 status, final_report, timestamps, events, q, runs_file, control_stop, ret>>

\* asyncio.gather resumes node_specialists once every coroutine has
\* finished; results come in the order of the steps (lines 125-130).
gather_ready_any(ts) == \E i \in 1..Len(ts) : ts[i].done

gather_ready(ts) == \A i \in 1..Len(ts) : ts[i].done

\* the results of the finished coroutines, in the order of the steps
RECURSIVE gather_results(_)
gather_results(ts) ==
  IF ts = <<>> THEN <<>> ELSE Head(ts).result \o gather_results(Tail(ts))

node_specialists_join ==
  /\ pc = "gather"
  /\ gather_ready(tasks)
  /\ specialist_decisions' = gather_results(tasks)
  /\ timestamps' = timestamps \cup {"specialists_done"}
  /\ keys' = keys \cup {"specialist_decisions", "timestamps"}
  /\ emit(specialists_events)
  /\ pc' = "aggregate"
  /\ UNCHANGED <<trace, context_max_turns, negotiation, llm, plan, tasks, composite_decision,
                 constraint_result, judgment_result, judgment_feedback,
                 retry_count, sim, simulation_result, status, final_report,
                 calls, runs_file, control_stop, ret>>

\* -------------------------------------------------------- node_aggregate
node_aggregate ==
  /\ pc = "aggregate"
  /\ trace' = Append(trace, "aggregate")
  /\ LET comp == aggregate(specialist_decisions)
     IN IF comp.raised # ""
        THEN /\ Raise(comp.raised)
             /\ UNCHANGED <<composite_decision, keys>>
        ELSE /\ composite_decision' = comp.value
             /\ keys' = keys \cup {"composite_decision"}
             /\ pc' = "constraint"
             /\ UNCHANGED ret
  /\ UNCHANGED <<context_max_turns, negotiation, llm, plan, tasks, specialist_decisions,
                 constraint_result, judgment_result, judgment_feedback,
                 retry_count, sim, simulation_result, status, final_report,
                 timestamps, calls, events, q, runs_file, control_stop>>

\* ------------------------------------------------------- node_constraint
ConstraintPayloads == {ConstraintResult(safe, "none") : safe \in BOOLEAN}

ConstraintOutcomes == Outcomes(ConstraintPayloads)

constraint_result_open(res) ==
  IF res.raised = ""
  THEN res.value[1]
  ELSE ConstraintResult(TRUE, "Agent Error")

\* lines 142-155: the agent's result, or an unsafe result when the call or
\* the validation of its payload raised.
constraint_result_of(res) ==
  IF res.raised = ""
  THEN res.value[1]
  ELSE ConstraintResult(FALSE, "Agent Error")

\* line 140: the feedback handed to the constraint agent
constraint_feedback == Get("judgment_feedback", judgment_feedback, None)

node_constraint ==
  /\ pc = "constraint"
  /\ trace' = Append(trace, "constraint")
  /\ \E res \in ConstraintOutcomes :
       /\ calls' = Append(calls, Call("constraint", retry_count + 1,
                                      constraint_feedback, NoConstraint,
                                      res.raised, FALSE))
       /\ constraint_result' = constraint_result_of(res)
  /\ timestamps' = timestamps \cup {"constraint_done"}
  /\ keys' = keys \cup {"constraint_result", "timestamps"}
  /\ emit(<<Event("status", <<>>), Event("constraint", <<"result">>)>>)
  /\ pc' = "judgment"
  /\ UNCHANGED <<context_max_turns, negotiation, llm, plan, tasks, specialist_decisions,
                 composite_decision, judgment_result, judgment_feedback,
                 retry_count, sim, simulation_result, status, final_report,
                 runs_file, control_stop, ret>>

\* --------------------------------------------------------- node_judgment
FinalDecisions == {Decision("APPROVE", "proceed", 50, 2, <<"ok">>)}

JudgmentPayloads ==
  {JudgmentResult(a, f, fd) :
     a \in BOOLEAN, f \in Feedbacks,
     fd \in {<<>>} \cup {<<d>> : d \in FinalDecisions}}

JudgmentOutcomes == Outcomes(JudgmentPayloads)

judgment_feedback_dropped(result) == None

\* line 186
judgment_feedback_of(result) ==
  IF ~result.is_approved THEN result.feedback ELSE None

check_judgment_loop_one_more(st, result, count) ==
  IF st = "SYSTEM_ERROR" THEN "finalize"
  ELSE IF result.is_approved THEN "simulation_run"
  ELSE IF count <= RetryLimit + 1 THEN "constraint"
  ELSE "finalize"

check_judgment_loop_run_anyway(st, result, count) ==
  IF st = "SYSTEM_ERROR" THEN "finalize"
  ELSE IF result.is_approved THEN "simulation_run"
  ELSE IF count <= RetryLimit THEN "constraint"
  ELSE "simulation_run"

check_judgment_loop_reaggregate(st, result, count) ==
  IF st = "SYSTEM_ERROR" THEN "finalize"
  ELSE IF result.is_approved THEN "simulation_run"
  ELSE IF count <= RetryLimit THEN "aggregate"
  ELSE "finalize"

check_judgment_loop_replan(st, result, count) ==
  IF st = "SYSTEM_ERROR" THEN "finalize"
  ELSE IF result.is_approved THEN "simulation_run"
  ELSE IF count <= RetryLimit THEN "plan"
  ELSE "finalize"

\* lines 313-326: the node that follows judgment.  st is
\* state.get("status"); result and count are read only when it is not
\* SYSTEM_ERROR.
check_judgment_loop(st, result, count) ==
  IF st = "SYSTEM_ERROR" THEN "finalize"
  ELSE IF result.is_approved THEN "simulation_run"
  ELSE IF count <= RetryLimit THEN "constraint"
  ELSE "finalize"

node_judgment ==
  /\ pc = "judgment"
  /\ trace' = Append(trace, "judgment")
  /\ \E res \in JudgmentOutcomes :
       /\ calls' = Append(calls, Call("judgment", retry_count + 1,
                              IF res.raised = "" THEN res.value[1].feedback
                              ELSE None,
                              constraint_result, res.raised,
                              res.raised = "" /\ res.value[1].is_approved))
       /\ IF res.raised # ""
          THEN /\ status' = "SYSTEM_ERROR"
               /\ keys' = keys \cup {"status"}
               /\ UNCHANGED <<judgment_result, judgment_feedback, retry_count>>
          ELSE /\ judgment_result' = res.value[1]
               /\ judgment_feedback' = judgment_feedback_of(res.value[1])
               /\ retry_count' = Get("retry_count", retry_count, 0) + 1
               /\ keys' = keys \cup {"judgment_result", "judgment_feedback",
                                     "retry_count"}
               /\ UNCHANGED status
  /\ pc' = check_judgment_loop(IF "status" \in keys' THEN status' ELSE None,
                               judgment_result', retry_count')
  /\ UNCHANGED <<context_max_turns, negotiation, llm, plan, tasks, specialist_decisions,
                 composite_decision, constraint_result, sim,
                 simulation_result, final_report, timestamps, events, q,
                 runs_file, control_stop, ret>>

\* --------------------------------------------------- node_simulation_run
\* line 211
max_turns ==
  IF context_max_turns = <<>> THEN DefaultMaxTurns ELSE context_max_turns[1]

\* lines 203-214: without a final decision the node returns SYSTEM_ERROR,
\* otherwise it sets up the loop.
node_simulation_run ==
  /\ pc = "simulation_run"
  /\ trace' = Append(trace, "simulation_run")
  /\ IF judgment_result.final_decision = <<>>
     THEN /\ status' = "SYSTEM_ERROR"
          /\ keys' = keys \cup {"status"}
          /\ pc' = "finalize"
          /\ UNCHANGED sim
     ELSE /\ sim' = [i |-> 0, outcome |-> "IN_PROGRESS"]
          /\ pc' = "simulation_loop"
          /\ UNCHANGED <<status, keys>>
  /\ UNCHANGED <<context_max_turns, negotiation, llm, plan, tasks, specialist_decisions,
                 composite_decision, constraint_result, judgment_result,
                 judgment_feedback, retry_count, simulation_result,
                 final_report, timestamps, calls, events, q, runs_file, control_stop, ret>>

simulation_turn_no_break ==
  /\ pc = "simulation_loop"
  /\ sim.i < max_turns
  /\ \E res \in Outcomes({"turn"}) :
       /\ calls' = Append(calls, Call("simulation", sim.i + 1, None,
                                      NoConstraint, res.raised, FALSE))
       /\ sim' = [i |-> sim.i + 1,
                  outcome |-> IF res.raised = "" THEN "COMPLETED" ELSE "CRASH"]
  /\ UNCHANGED <<trace, pc, keys, context_max_turns, negotiation, llm, plan, tasks,
                 specialist_decisions, composite_decision, constraint_result,
                 judgment_result, judgment_feedback, retry_count,
                 simulation_result, status, final_report, timestamps, events, q,
                 runs_file, control_stop, ret>>

\* lines 216-245: one pass of the loop body; the loop breaks on the first
\* call that raises.
simulation_turn ==
  /\ pc = "simulation_loop"
  /\ sim.i < max_turns
  /\ sim.outcome # "CRASH"
  /\ \E res \in Outcomes({"turn"}) :
       /\ calls' = Append(calls, Call("simulation", sim.i + 1, None,
                                      NoConstraint, res.raised, FALSE))
       /\ sim' = [i |-> sim.i + 1,
                  outcome |-> IF res.raised = "" THEN "COMPLETED" ELSE "CRASH"]
  /\ UNCHANGED <<trace, pc, keys, context_max_turns, negotiation, llm, plan, tasks,
                 specialist_decisions, composite_decision, constraint_result,
                 judgment_result, judgment_feedback, retry_count,
                 simulation_result, status, final_report, timestamps, events, q,
                 runs_file, control_stop, ret>>

\* lines 248-259: the result is built from max_turns and an empty history,
\* and the status is SUCCESS whatever the outcome.
simulation_return ==
  /\ pc = "simulation_loop"
  /\ sim.i = max_turns \/ sim.outcome = "CRASH"
  /\ simulation_result' =
       <<SimulationResult(sim.outcome, 100, max_turns, <<>>)>>
  /\ status' = "SUCCESS"
  /\ keys' = keys \cup {"simulation_result", "status"}
  /\ pc' = "finalize"
  /\ UNCHANGED <<trace, context_max_turns, negotiation, llm, plan, tasks, specialist_decisions,
                 composite_decision, constraint_result, judgment_result,
                 judgment_feedback, retry_count, sim, final_report,
                 timestamps, calls, events, q, runs_file, control_stop, ret>>

\* --------------------------------------------------------- node_finalize
FallbackDecision ==
  Decision("ABORT", "System Failure", 0, 10, <<"Graph did not reach a decision">>)

\* lines 265-266
finalize_decision ==
  IF "judgment_result" \in keys THEN judgment_result.final_decision ELSE <<>>

finalize_status_success(final_dec) == Get("status", status, "SUCCESS")

\* lines 268-279
finalize_status(final_dec) ==
  IF final_dec = <<>>
  THEN Get("status", status, "SYSTEM_ERROR")
  ELSE Get("status", status, "SUCCESS")

FinalReport(st, final_dec, sim_res, count, stamps) ==
  [status |-> st, final_decision |-> final_dec, simulation_result |-> sim_res,
   audit_trail |-> [retry_count |-> count], timestamps |-> stamps]

node_finalize ==
  /\ pc = "finalize"
  /\ trace' = Append(trace, "finalize")
  /\ IF "plan" \notin keys
     THEN /\ Raise("KeyError")
          /\ UNCHANGED <<final_report, keys>>
     ELSE /\ final_report' =
               <<FinalReport(
                   finalize_status(finalize_decision),
                   IF finalize_decision = <<>> THEN FallbackDecision
                   ELSE finalize_decision[1],
                   Get("simulation_result", simulation_result, <<>>),
                   Get("retry_count", retry_count, 0),
                   timestamps \cup {"end"})>>
          /\ keys' = keys \cup {"final_report"}
          /\ pc' = "stream_end"
          /\ UNCHANGED ret
  /\ UNCHANGED <<context_max_turns, negotiation, llm, plan, tasks, specialist_decisions,
                 composite_decision, constraint_result, judgment_result,
                 judgment_feedback, retry_count, sim, simulation_result,
                 status, timestamps, calls, events, q, runs_file, control_stop>>

\* ------------------------------------------- manager_run, after the stream
\* lines 122-124: the last chunk of the stream is the update of finalize
report == final_report

write_path_final == "report_path"

\* lines 151-153: the report is written to report_path + ".tmp"
write_path == "tmp_path"

\* line 153: open(tmp_path, "w") creates or truncates the file
persist_open ==
  /\ pc = "stream_end"
  /\ report # <<>>
  /\ runs_file' = [runs_file EXCEPT ![write_path] = "partial"]
  /\ pc' = "persist_write"
  /\ UNCHANGED <<trace, keys, context_max_turns, negotiation, llm, plan, tasks,
                 specialist_decisions, composite_decision, constraint_result,
                 judgment_result, judgment_feedback, retry_count, sim,
                 simulation_result, status, final_report, timestamps, calls,
                 events, q, control_stop, ret>>

\* line 154 and the end of the with block: the JSON text is written and
\* the file closed
persist_write ==
  /\ pc = "persist_write"
  /\ runs_file' = [runs_file EXCEPT ![write_path] = "complete"]
  /\ pc' = "persist_replace"
  /\ UNCHANGED <<trace, keys, context_max_turns, negotiation, llm, plan, tasks,
                 specialist_decisions, composite_decision, constraint_result,
                 judgment_result, judgment_feedback, retry_count, sim,
                 simulation_result, status, final_report, timestamps, calls,
                 events, q, control_stop, ret>>

\* line 155: os.replace(tmp_path, report_path) moves the file in one step
persist_replace ==
  /\ pc = "persist_replace"
  /\ runs_file' =
       IF write_path = "report_path" THEN runs_file
       ELSE [report_path |-> runs_file[write_path], tmp_path |-> "absent"]
  /\ pc' = "persisted"
  /\ UNCHANGED <<trace, keys, context_max_turns, negotiation, llm, plan, tasks,
                 specialist_decisions, composite_decision, constraint_result,
                 judgment_result, judgment_feedback, retry_count, sim,
                 simulation_result, status, final_report, timestamps, calls,
                 events, q, control_stop, ret>>

\* lines 157-160: with a report, 'done' is emitted and the report returned;
\* without one the error dict is returned.
manager_run_return ==
  /\ pc = IF report # <<>> THEN "persisted" ELSE "stream_end"
  /\ IF report # <<>>
     THEN /\ emit(<<Event("done", report)>>)
          /\ ret' = "report"
     ELSE /\ ret' = "error"
          /\ UNCHANGED <<events, q>>
  /\ pc' = "done"
  /\ UNCHANGED <<trace, keys, context_max_turns, negotiation, llm, plan, tasks, specialist_decisions,
                 composite_decision, constraint_result, judgment_result,
                 judgment_feedback, retry_count, sim, simulation_result,
                 status, final_report, timestamps, calls, runs_file,
                 control_stop>>

\* ------------------------------------------------------------ ui/_worker.py
\* lines 101-105: an exception that leaves manager_run is reported on the
\* queue, InterruptedError as the abort line and any other as an error.
worker_run_except ==
  /\ pc = "raised"
  /\ q[Len(q)] \notin {"aborted", "error"}
  /\ q' = Append(q, IF ret = "InterruptedError" THEN "aborted" ELSE "error")
  /\ UNCHANGED <<pc, trace, keys, context_max_turns, negotiation, llm, plan, tasks,
                 specialist_decisions, composite_decision, constraint_result,
                 judgment_result, judgment_feedback, retry_count, sim,
                 simulation_result, status, final_report, timestamps, calls,
                 events, runs_file, control_stop, ret>>

Next ==
  \/ node_plan
  \/ node_specialists
  \/ \E i \in 1..MaxSteps + 1 : run_step_settle(i)
  \/ node_specialists_join
  \/ node_aggregate
  \/ node_constraint
  \/ node_judgment
  \/ node_simulation_run
  \/ simulation_turn
  \/ simulation_return
  \/ node_finalize
  \/ persist_open
  \/ persist_write
  \/ persist_replace
  \/ manager_run_return
  \/ worker_run_except

Spec == Init /\ [][Next]_vars

\* ------------------------------------------------ the run under the UI
\* ui/app.py line 106: the STOP button sets control["stop"], at any moment
\* of the worker's run.
ui_stop ==
  /\ ~control_stop
  /\ control_stop' = TRUE
  /\ UNCHANGED <<pc, trace, keys, context_max_turns, negotiation, llm, plan, tasks,
                 specialist_decisions, composite_decision, constraint_result,
                 judgment_result, judgment_feedback, retry_count, sim,
                 simulation_result, status, final_report, timestamps, calls,
                 events, q, runs_file, ret>>

WorkerNext == Next \/ ui_stop

WorkerSpec == Init /\ [][WorkerNext]_vars

\* ------------------------------------- collaborators that do not return
\* The nodes await their agent with no timeout (graph.py lines 63, 93, 149,
\* 175, 227) and manager_run awaits the stream with none (lines 74-107): a
\* call that never returns leaves the run waiting in that await.
Awaiting ==
  \/ pc \in {"plan", "constraint", "judgment"}
  \/ pc = "gather" /\ \E i \in 1..Len(tasks) : ~tasks[i].done /\ HasAgent(plan[i])
  \/ pc = "simulation_loop" /\ sim.i < max_turns /\ sim.outcome # "CRASH"

call_never_returns ==
  /\ Awaiting
  /\ pc' = "hung"
  /\ UNCHANGED <<trace, keys, context_max_turns, negotiation, llm, plan, tasks,
                 specialist_decisions, composite_decision, constraint_result,
                 judgment_result, judgment_feedback, retry_count, sim,
                 simulation_result, status, final_report, timestamps, calls,
                 events, q, runs_file, control_stop, ret>>

LiveNext == Next \/ call_never_returns

\* The event loop runs every coroutine that can proceed.
LiveSpec == Init /\ [][LiveNext]_vars /\ WF_vars(LiveNext)

\* ------------------------------------ DecisionAggregator.aggregate alone
\* The entries aggregate is applied to: decided ones (one of them with an
\* empty rationale_summary), signaled ones and a faulted one.
Signal(points, conf, delta) ==
  [summary_points |-> points, confidence |-> conf, inferred_risk_delta |-> delta]

AgentFault(kind, message) == [fault_type |-> kind, message |-> message]

AggEntries ==
  {SpecialistDecision("SECURITY", <<d>>, <<>>, <<>>) : d \in AgentDecisions}
  \cup {SpecialistDecision("TECHNOLOGY", <<>>, <<>>,
                           <<Signal(<<"hint">>, 50, delta)>>) :
          delta \in {-2, 1, 2}}
  \cup {SpecialistDecision("ECONOMICS", <<>>,
                           <<AgentFault("TIMEOUT", "timed out")>>, <<>>)}

\* every sequence of up to MaxAggLen entries, and up to MaxRepeat copies of
\* one entry
AggInputs ==
  SeqsUpTo(AggEntries, MaxAggLen)
  \cup {[i \in 1..n |-> e] : e \in AggEntries, n \in 1..MaxRepeat}

\* aggregate is about to be called on an arbitrary list of entries
AggInit ==
  /\ pc = "aggregate"
  /\ keys = {"request", "context", "seed", "run_id", "timestamps",
             "turn_count", "plan", "specialist_decisions"}
  /\ context_max_turns = <<>>
  /\ plan = <<>>
  /\ tasks = <<>>
  /\ specialist_decisions \in AggInputs
  /\ composite_decision = <<>>
  /\ constraint_result = NoConstraint
  /\ judgment_result = NoJudgment
  /\ judgment_feedback = None
  /\ retry_count = 0
  /\ sim = NoSim
  /\ simulation_result = <<>>
  /\ status = "unset"
  /\ final_report = <<>>
  /\ timestamps = {"start", "plan_done", "specialists_done"}
  /\ calls = <<>>
  /\ trace = <<"plan", "specialists">>
  /\ events = <<"status">>
  /\ runs_file = NoFiles
  /\ control_stop = FALSE
  /\ q = <<"turn", "turn">>
  /\ negotiation = NoNegotiation
  /\ llm = NoLlm
  /\ ret = "running"

AggNext == node_aggregate

AggSpec == AggInit /\ [][AggNext]_vars

\* ------------------------------------------------------------------------
\* the variables of a coordinator run, untouched by the graphs below
coordinator_vars ==
  <<pc, keys, context_max_turns, plan, tasks, specialist_decisions,
    composite_decision, constraint_result, judgment_result, judgment_feedback,
    retry_count, sim, simulation_result, status, final_report, timestamps,
    calls, trace, events, q, runs_file, control_stop, ret>>

\* no coordinator run in progress
CoordinatorIdle ==
  /\ pc = "idle"
  /\ keys = {}
  /\ context_max_turns = <<>>
  /\ plan = <<>>
  /\ tasks = <<>>
  /\ specialist_decisions = <<>>
  /\ composite_decision = <<>>
  /\ constraint_result = NoConstraint
  /\ judgment_result = NoJudgment
  /\ judgment_feedback = None
  /\ retry_count = 0
  /\ sim = NoSim
  /\ simulation_result = <<>>
  /\ status = "unset"
  /\ final_report = <<>>
  /\ timestamps = {}
  /\ calls = <<>>
  /\ trace = <<>>
  /\ events = <<>>
  /\ q = <<>>
  /\ runs_file = NoFiles
  /\ control_stop = FALSE
  /\ ret = "running"

\* ------------------------------------------ workflows/negotiation_graph.py
MaxActors == 3
MaxNegTurns == 2

ActorIds == <<"A", "B", "C", "D">>

\* list(state["actors"].keys()): the actors in their dict order
ActorLists == {SubSeq(ActorIds, 1, n) : n \in 1..MaxActors}

\* actors.index(current_actor), 1-based
IndexOf(seq, x) == CHOOSE i \in 1..Len(seq) : seq[i] = x

should_continue_gt(turn_count, limit) ==
  IF turn_count > limit THEN "finalize" ELSE "agent_move"

\* lines 137-140
should_continue(turn_count, limit) ==
  IF turn_count >= limit THEN "finalize" ELSE "agent_move"

\* the state the graph is invoked with: a non-empty actor dict, the actor to
\* move (one of the dict, or a name it does not hold), a turn counter, a limit
\* and possibly earlier history
NegInit ==
  /\ CoordinatorIdle
  /\ llm = NoLlm
  /\ \E actors \in ActorLists, n \in 0..1, limit \in 0..MaxNegTurns,
        h \in {<<>>, << <<0, "seed">> >>} :
       \E a \in {actors[i] : i \in 1..Len(actors)} \cup {"Z"} :
         negotiation = [pc |-> "agent_move", actors |-> actors,
                        current_actor |-> a, turn_count |-> n,
                        max_turns |-> limit, history |-> h,
                        final_result |-> <<>>]

\* lines 90-99 (node agent_move): the actor's move is asked of the LLM and
\* appended to a copy of the history; an exception of the call ends the run
safe_plan_move ==
  /\ negotiation.pc = "agent_move"
  /\ \E res \in Outcomes({"move"}) :
       negotiation' =
         IF res.raised # ""
         THEN [negotiation EXCEPT !.pc = "raised"]
         ELSE [negotiation EXCEPT
                 !.history = Append(@, <<negotiation.turn_count,
                                         negotiation.current_actor>>),
                 !.pc = "next_turn"]
  /\ UNCHANGED <<coordinator_vars, llm>>

\* lines 51-65 (node next_turn) and the conditional edge of line 142;
\* actors.index raises ValueError for a name that is not an actor
node_update_state ==
  /\ negotiation.pc = "next_turn"
  /\ LET actors == negotiation.actors
         known == \E i \in 1..Len(actors) : actors[i] = negotiation.current_actor
         current_idx == IndexOf(actors, negotiation.current_actor)
         next_idx == (current_idx % Len(actors)) + 1
         next_turn == IF next_idx = 1 THEN negotiation.turn_count + 1
                      ELSE negotiation.turn_count
     IN negotiation' =
          IF ~known
          THEN [negotiation EXCEPT !.pc = "raised"]
          ELSE [negotiation EXCEPT
                  !.current_actor = actors[next_idx],
                  !.turn_count = next_turn,
                  !.pc = should_continue(next_turn, negotiation.max_turns)]
  /\ UNCHANGED <<coordinator_vars, llm>>

\* lines 67-79 (node finalize), then END
node_evaluate_outcome ==
  /\ negotiation.pc = "finalize"
  /\ \E res \in Outcomes({"summary"}) :
       negotiation' =
         IF res.raised # ""
         THEN [negotiation EXCEPT !.pc = "raised"]
         ELSE [negotiation EXCEPT !.final_result = res.value, !.pc = "END"]
  /\ UNCHANGED <<coordinator_vars, llm>>

NegNext == safe_plan_move \/ node_update_state \/ node_evaluate_outcome

\* LangGraph runs the node that is due.
NegSpec == NegInit /\ [][NegNext]_vars /\ WF_vars(NegNext)

\* ------------------------------------------------------- llm/llm_client.py
MaxRetries == 2

range_end_extra(retries) == retries + 2

\* line 166: for attempt in range(retries + 1)
range_end(retries) == retries + 1

\* one finished attempt: how it ended and what it did on the way
Attempt(kind, cur) ==
  [kind |-> kind, called |-> cur.called, generated |-> cur.generated,
   wrote |-> cur.wrote]

\* line 168: the attempt's generate returned; its result is returned at once
attempt_returns(kind, cur, cache) ==
  [llm EXCEPT !.pc = "returned",
              !.cur = cur,
              !.attempts = Append(@, Attempt(kind, cur)),
              !.cache = cache,
              !.ret = [kind |-> kind, attempt |-> llm.attempt]]

\* lines 172-178: the exception is kept; another attempt follows the sleep
\* while the range lasts, else the kept exception is raised
attempt_fails(kind, cur, cache) ==
  LET e == [kind |-> kind, attempt |-> llm.attempt]
  IN IF llm.attempt + 1 < range_end(llm.retries)
     THEN [llm EXCEPT !.pc = "read_cache",
                      !.attempt = @ + 1,
                      !.cur = NoAttempt,
                      !.attempts = Append(@, Attempt(kind, cur)),
                      !.cache = cache,
                      !.last_exception = e]
     ELSE [llm EXCEPT !.pc = "raised",
                      !.cur = cur,
                      !.attempts = Append(@, Attempt(kind, cur)),
                      !.cache = cache,
                      !.last_exception = e,
                      !.ret = e]

\* one call with retries >= 0 and the cache file of its key there or not
LlmInit ==
  /\ CoordinatorIdle
  /\ negotiation = NoNegotiation
  /\ \E retries \in 0..MaxRetries, cache \in {"absent", "present"} :
       llm = [NoLlm EXCEPT !.pc = "read_cache", !.retries = retries,
                           !.cache = cache]

\* lines 100-107 and 62-70: a readable cache file is returned; a missing or
\* unreadable one leads to the backend; the timeout may fire meanwhile
generate_read_cache ==
  /\ llm.pc = "read_cache"
  /\ \E o \in (IF llm.cache = "present" THEN {"hit"} ELSE {})
              \cup {"miss", "timeout"} :
       llm' = CASE o = "hit" -> attempt_returns("hit", llm.cur, llm.cache)
                [] o = "miss" -> [llm EXCEPT !.pc = "backend"]
                [] OTHER -> attempt_fails("timeout", llm.cur, llm.cache)
  /\ UNCHANGED <<coordinator_vars, negotiation>>

\* lines 132-148 and 154-156: the backend answers, raises, or the timeout
\* cancels the call
generate_backend ==
  /\ llm.pc = "backend"
  /\ LET called == [llm.cur EXCEPT !.called = TRUE]
     IN \E o \in {"ok", "error", "timeout"} :
          llm' = CASE o = "ok" ->
                        [llm EXCEPT !.pc = "write_cache",
                                    !.cur = [called EXCEPT !.generated = TRUE]]
                   [] o = "error" -> attempt_fails("error", called, llm.cache)
                   [] OTHER -> attempt_fails("timeout", called, llm.cache)
  /\ UNCHANGED <<coordinator_vars, negotiation>>

\* lines 150-152 and 76-87: the result is written through a temporary file
\* in a thread; a failed write is only logged; a timeout during the write
\* cancels the await while the thread may still finish the write
generate_write_cache ==
  /\ llm.pc = "write_cache"
  /\ LET wrote == [llm.cur EXCEPT !.wrote = TRUE]
     IN \E o \in {"written", "write_failed", "timeout_written", "timeout"} :
          llm' = CASE o = "written" -> attempt_returns("ok", wrote, "present")
                   [] o = "write_failed" ->
                        attempt_returns("ok", llm.cur, llm.cache)
                   [] o = "timeout_written" ->
                        attempt_fails("timeout", wrote, "present")
                   [] OTHER -> attempt_fails("timeout", llm.cur, llm.cache)
  /\ UNCHANGED <<coordinator_vars, negotiation>>

LlmNext == generate_read_cache \/ generate_backend \/ generate_write_cache

LlmSpec == LlmInit /\ [][LlmNext]_vars

\* ======================================================== claim formulas
JudgmentCalls == SelectSeq(calls, LAMBDA c : c.agent = "judgment")
ConstraintCalls == SelectSeq(calls, LAMBDA c : c.agent = "constraint")
PlannerFailed == calls # <<>> /\ calls[1].outcome # ""
Visited(node) == \E p \in 1..Len(trace) : trace[p] = node
Reported == final_report # <<>>

\* C1 (as claimed): every run ends in finalize with a FinalReport; no
\* failure of a collaborator or of a node leaves manager_run as an
\* exception, and a run that has ended has returned its report.
C1_RunAlwaysFinalizes ==
  /\ pc # "raised"
  /\ pc = "done" => (Reported /\ ret = "report")

AllJudgmentsRejected ==
  /\ JudgmentCalls # <<>>
  /\ \A k \in 1..Len(JudgmentCalls) :
       JudgmentCalls[k].outcome = "" /\ ~JudgmentCalls[k].approved

\* C2 (as claimed): when every judgment of a finished run returned
\* is_approved = false, there were exactly RetryLimit + 1 judgment calls,
\* the resolution node never ran and the report's status is not SUCCESS.
C2_RejectedNeverSuccess ==
  (pc = "done" /\ AllJudgmentsRejected) =>
    /\ Len(JudgmentCalls) = RetryLimit + 1
    /\ ~Visited("simulation_run")
    /\ Reported
    /\ final_report[1].status # "SUCCESS"

\* C3: the first constraint check is called without feedback, and the
\* constraint check of iteration K+1 is called with exactly the feedback
\* string returned by the rejecting judgment of iteration K.
C3_FeedbackChannel ==
  \A k \in 1..Len(ConstraintCalls) :
    IF k = 1
    THEN ConstraintCalls[k].feedback = None
    ELSE /\ k - 1 <= Len(JudgmentCalls)
         /\ JudgmentCalls[k - 1].outcome = ""
         /\ ~JudgmentCalls[k - 1].approved
         /\ ConstraintCalls[k].feedback = JudgmentCalls[k - 1].feedback

\* C3 witness: a third constraint check has been called, after two
\* rejections that carried different feedback strings.
C3_Witness ==
  /\ Len(ConstraintCalls) = 3
  /\ ConstraintCalls[2].feedback = "f1"
  /\ ConstraintCalls[3].feedback = "f2"

\* C4 (as claimed): retry_count, in the state and in the audit trail of
\* the report, never exceeds the retry bound.
C4_RetryWithinBound ==
  /\ retry_count <= RetryLimit
  /\ Reported => final_report[1].audit_trail.retry_count <= RetryLimit

ReturnedJudgments == SelectSeq(JudgmentCalls, LAMBDA c : c.outcome = "")

\* C4 (amended): retry_count counts the judgment calls that returned; it
\* never exceeds the retry bound plus one, in the state and in the report.
C4_RetryCountsAttempts ==
  /\ retry_count = Len(ReturnedJudgments)
  /\ retry_count <= RetryLimit + 1
  /\ Reported => final_report[1].audit_trail.retry_count <= RetryLimit + 1

\* C4 witness: a report whose audit trail holds retry_count = bound + 1.
C4_Witness ==
  /\ Reported
  /\ final_report[1].audit_trail.retry_count = RetryLimit + 1

LastJudgmentApproved ==
  /\ JudgmentCalls # <<>>
  /\ JudgmentCalls[Len(JudgmentCalls)].outcome = ""
  /\ JudgmentCalls[Len(JudgmentCalls)].approved

\* C5: the resolution node is entered exactly when the most recent
\* judgment call returned an approval; it directly follows that judgment,
\* precedes finalize, and never runs after a planner failure.
C5_ResolutionIffApproved ==
  /\ (pc = "simulation_run" \/ Visited("simulation_run")) <=> LastJudgmentApproved
  /\ Visited("simulation_run") => ~PlannerFailed
  /\ \A p \in 1..Len(trace) :
       /\ trace[p] = "simulation_run" => (p > 1 /\ trace[p - 1] = "judgment")
       /\ trace[p] = "finalize" =>
            (LastJudgmentApproved => trace[p - 1] = "simulation_run")

\* C5 witness: a finished run whose resolution node ran.
C5_Witness == pc = "done" /\ Visited("simulation_run")

\* C6 (as claimed): after a planner failure the next node is finalize, no
\* other collaborator is called, nothing is raised, and the report has
\* status SYSTEM_ERROR.
C6_PlanFailureFinalizes ==
  PlannerFailed =>
    /\ pc # "raised"
    /\ Len(calls) = 1
    /\ Len(trace) >= 2 => trace[2] = "finalize"
    /\ Reported => final_report[1].status = "SYSTEM_ERROR"

EvaluatorCallsOf(i) ==
  Cardinality({n \in 1..Len(calls) :
                 calls[n].agent \in KnownRoles /\ calls[n].step = i})

\* C7: node_specialists is a join barrier.  There is one run_step per plan
\* step, each makes at most one agent call (exactly one once it has
\* finished, when the step has an agent), and aggregation starts only after
\* all of them finished, on as many results as plan steps, in step order,
\* each being the result its own run_step produced.
C7_JoinBarrier ==
  /\ pc = "gather" => Len(tasks) = Len(plan)
  /\ \A i \in 1..Len(tasks) :
       EvaluatorCallsOf(i) =
         (IF tasks[i].done /\ HasAgent(plan[i]) THEN 1 ELSE 0)
  /\ (pc = "aggregate" \/ Visited("aggregate")) =>
       /\ gather_ready(tasks)
       /\ Len(specialist_decisions) = Len(plan)
       /\ \A i \in 1..Len(plan) :
            /\ specialist_decisions[i] = tasks[i].result[1]
            /\ specialist_decisions[i].agent = plan[i]

\* C7 witness: two steps whose calls finished in the reverse order, the
\* second one failing; aggregation is about to start with both results.
C7_Witness ==
  /\ pc = "aggregate"
  /\ Len(plan) = 2
  /\ Len(calls) = 3
  /\ calls[2].step = 2 /\ calls[2].outcome = "Exception"
  /\ calls[3].step = 1 /\ calls[3].outcome = ""
  /\ specialist_decisions[1].decision[1].recommended_action = "proceed"
  /\ specialist_decisions[2].decision[1].recommended_action = "Agent Error"

EvaluatorFailed ==
  \E n \in 1..Len(calls) :
    calls[n].agent \in KnownRoles /\ calls[n].outcome # ""

\* C8 (as claimed): a failed evaluator call never becomes a run-level
\* error; the run still goes through aggregation, constraint check and
\* judgment.
C8_EvaluatorFaultAbsorbed ==
  EvaluatorFailed =>
    /\ pc # "raised"
    /\ pc = "done" =>
         (Visited("aggregate") /\ Visited("constraint") /\ Visited("judgment"))

StepFailed(i) ==
  \/ ~HasAgent(plan[i])
  \/ \E n \in 1..Len(calls) :
       calls[n].agent \in KnownRoles /\ calls[n].step = i /\ calls[n].outcome # ""

\* C9 (as claimed): a step whose agent call raised or returned an invalid
\* Decision, or that names no known agent, yields a SpecialistDecision with
\* a fault and without a decision.
C9_FailedEvaluationIsFault ==
  \A i \in 1..Len(tasks) :
    (tasks[i].done /\ StepFailed(i)) =>
      /\ tasks[i].result[1].fault # <<>>
      /\ tasks[i].result[1].decision = <<>>

JudgmentFailed ==
  \E k \in 1..Len(JudgmentCalls) : JudgmentCalls[k].outcome # ""

\* C10: a failed constraint call makes the constraint result unsafe and
\* that result is what the judgment of the iteration receives; a failed
\* judgment call ends the loop and is never followed by the resolution
\* node or reported as SUCCESS.
C10_FailClosed ==
  /\ \A k \in 1..Len(ConstraintCalls) :
       ConstraintCalls[k].outcome # "" =>
         IF k <= Len(JudgmentCalls)
         THEN ~JudgmentCalls[k].constraint.is_safe
         ELSE pc = "judgment" /\ ~constraint_result.is_safe
  /\ JudgmentFailed =>
       /\ JudgmentCalls[Len(JudgmentCalls)].outcome # ""
       /\ pc \in {"finalize", "stream_end", "persist_write",
                  "persist_replace", "persisted", "done"}
       /\ ~Visited("simulation_run")
       /\ Reported => final_report[1].status # "SUCCESS"

\* C10 witness: a finished run whose first constraint call failed and whose
\* second judgment call failed after a rejection that carried a decision.
C10_Witness ==
  /\ pc = "done" /\ Reported
  /\ ConstraintCalls[1].outcome # ""
  /\ Len(JudgmentCalls) = 2
  /\ JudgmentCalls[2].outcome # ""
  /\ judgment_result.final_decision # <<>>

\* ------------------------------------------- claims about aggregate alone
\* aggregate has been applied to specialist_decisions: it returned the
\* composite now in composite_decision, or raised.
AggCalled == pc \in {"constraint", "raised"}
AggReturned == pc = "constraint"
Primary == composite_decision[1].primary_decision
Decided == SelectSeq(specialist_decisions, HasDecision)
Signaled == SelectSeq(specialist_decisions, HasSignal)
Faulted == SelectSeq(specialist_decisions, HasFault)

\* C11 (as claimed): aggregate returns a CompositeDecision for every
\* input sequence and never raises.
C11_AggregateTotal == AggCalled => AggReturned

RECURSIVE Insert(_, _)
Insert(x, s) ==
  IF s = <<>> THEN <<x>>
  ELSE IF x <= Head(s) THEN <<x>> \o s
  ELSE <<Head(s)>> \o Insert(x, Tail(s))

RECURSIVE Sorted(_)
Sorted(s) == IF s = <<>> THEN <<>> ELSE Insert(Head(s), Sorted(Tail(s)))

\* twice the median of a non-empty sequence of integers
TwiceMedian(s) ==
  LET t == Sorted(s)
      n == Len(t)
  IN IF n % 2 = 1 THEN 2 * t[(n + 1) \div 2] ELSE t[n \div 2] + t[n \div 2 + 1]

DecidedRisks == [i \in 1..Len(Decided) |-> Decided[i].decision[1].risk_score]

QualifyingAborts ==
  SelectSeq(Decided, LAMBDA sd :
    /\ sd.decision[1].decision_type = "ABORT"
    /\ sd.decision[1].risk_score >= 8
    /\ sd.decision[1].confidence >= 60)

Quorum == Len(QualifyingAborts) >= 2

\* C12 (as claimed): with at least two decided entries and no ABORT quorum
\* the primary risk_score is the median of the decided risk scores (mean of
\* the two middle values for an even count).
C12_MedianRisk ==
  (AggCalled /\ Len(Decided) >= 2 /\ ~Quorum) =>
    /\ AggReturned
    /\ 2 * Primary.risk_score = TwiceMedian(DecidedRisks)

\* C13 (as claimed): the composite is ABORT only under a quorum of two
\* qualifying aborts; two or more decided entries without that quorum (one
\* ABORT with risk 9 and confidence 0.9 next to an APPROVE with risk 2) are
\* resolved to a composite that is not ABORT.
C13_AbortNeedsQuorum ==
  AggCalled =>
    /\ (AggReturned /\ Primary.decision_type = "ABORT") => Quorum
    /\ (Len(Decided) >= 2 /\ ~Quorum) =>
         (AggReturned /\ Primary.decision_type # "ABORT")

RECURSIVE MaxOf(_)
MaxOf(s) == IF Len(s) = 1 THEN s[1] ELSE Max(Head(s), MaxOf(Tail(s)))

\* C14 (as claimed): under the quorum the composite is ABORT, its risk is
\* the largest risk among the qualifying aborts and its consensus_score is
\* qualifying count / |decided| (percent here).
C14_QuorumAbort ==
  (AggCalled /\ Quorum) =>
    /\ AggReturned
    /\ Primary.decision_type = "ABORT"
    /\ Primary.risk_score =
         MaxOf([i \in 1..Len(QualifyingAborts) |->
                  QualifyingAborts[i].decision[1].risk_score])
    /\ composite_decision[1].consensus_score * Len(Decided) =
         100 * Len(QualifyingAborts)

DegradedRisk ==
  LET base == IF Decided = <<>> THEN 3 ELSE Decided[1].decision[1].risk_score
      delta == SumSeq([i \in 1..Len(Signaled) |->
                         Signaled[i].signal[1].inferred_risk_delta])
  IN Max(1, Min(7, base + delta))

\* C15 (as claimed): with fewer than two decided entries and at least one
\* signaled entry the result is MODIFY with consensus_score 0.4 and risk
\* clamp(base_risk + sum of deltas, 1, 7), base_risk being the decided
\* entry's risk or 3.
C15_DegradedPath ==
  (AggCalled /\ Len(Decided) < 2 /\ Signaled # <<>>) =>
    /\ AggReturned
    /\ Primary.decision_type = "MODIFY"
    /\ composite_decision[1].consensus_score = 40
    /\ Primary.risk_score = DegradedRisk

\* C16: without any decided or signaled entry the result is MODIFY with
\* risk 0, confidence 0 and consensus_score 0, and its rationale is the
\* messages of the first faults, at most 3 of them (3 when there are three
\* or more faults; a single "No Data" line when there is none).
C16_TotalFailure ==
  (AggCalled /\ Decided = <<>> /\ Signaled = <<>>) =>
    /\ AggReturned
    /\ Primary.decision_type = "MODIFY"
    /\ Primary.risk_score = 0
    /\ Primary.confidence = 0
    /\ composite_decision[1].consensus_score = 0
    /\ Len(Primary.rationale_summary) <= 3
    /\ Len(Faulted) >= 3 => Len(Primary.rationale_summary) = 3
    /\ IF Faulted = <<>>
       THEN Primary.rationale_summary = << <<"No Data">> >>
       ELSE /\ Len(Primary.rationale_summary) = Min(3, Len(Faulted))
            /\ \A i \in 1..Len(Primary.rationale_summary) :
                 Primary.rationale_summary[i] =
                   <<"Fault", Faulted[i].fault[1].message>>

\* C16 witness: aggregate returned for four faulted entries, with a
\* rationale of three lines.
C16_Witness ==
  /\ AggReturned
  /\ Decided = <<>> /\ Signaled = <<>>
  /\ Len(Faulted) = 4
  /\ Len(Primary.rationale_summary) = 3

\* C17: whenever aggregate returns, the rationale_summary of the primary
\* decision has at most 3 entries.
C17_RationaleBounded ==
  AggReturned => Len(Primary.rationale_summary) <= 3

\* C17 witness: aggregate returned for a decided entry next to more signals
\* than rationale slots are left.
C17_Witness ==
  /\ AggReturned
  /\ Len(Decided) + Len(Signaled) > 3
  /\ Len(Signaled) >= 2
  /\ Len(Primary.rationale_summary) = 3

\* ------------------------------------------ claims about the resolution
SimulationCalls == SelectSeq(calls, LAMBDA c : c.agent = "simulation")

SimulationFailed ==
  \E k \in 1..Len(SimulationCalls) : SimulationCalls[k].outcome # ""

SucceededSimulationCalls ==
  SelectSeq(SimulationCalls, LAMBDA c : c.outcome = "")

\* C20 (as claimed): the SimulationResult holds one history entry per turn
\* that succeeded, its turn_count is the number of turns executed, and its
\* outcome is COMPLETED when every configured turn succeeded and a crash
\* otherwise; no other outcome appears.
C20_ArtifactConsistent ==
  simulation_result # <<>> =>
    /\ Len(simulation_result[1].history) = Len(SucceededSimulationCalls)
    /\ simulation_result[1].turn_count = Len(SimulationCalls)
    /\ simulation_result[1].outcome \in {"COMPLETED", "CRASH"}
    /\ simulation_result[1].outcome = "COMPLETED" <=> ~SimulationFailed

\* ----------------------------------------------- claims about the report
Finished == pc \in {"done", "raised"}

\* C21 (as claimed): the status of every FinalReport is one of RunStatus,
\* and it is SUCCESS only when planning succeeded, the last judgment
\* approved and the resolution ran to completion without a crash.
C21_StatusConsistent ==
  Reported =>
    /\ final_report[1].status \in RunStatus
    /\ final_report[1].status = "SUCCESS" =>
         /\ ~PlannerFailed
         /\ LastJudgmentApproved
         /\ simulation_result # <<>>
         /\ simulation_result[1].outcome = "COMPLETED"
         /\ ~SimulationFailed

AllEvaluationsFailed ==
  /\ Visited("aggregate")
  /\ plan # <<>>
  /\ \A i \in 1..Len(plan) : StepFailed(i)

\* C22 (as claimed): a run in which every evaluation failed ends with a
\* composite decision that is not ABORT and with a report whose status is
\* the degraded one, not SUCCESS, not a rejection and not SYSTEM_ERROR.
C22_TotalAbsenceDegraded ==
  (Finished /\ AllEvaluationsFailed) =>
    /\ composite_decision # <<>>
    /\ Primary.decision_type # "ABORT"
    /\ Reported
    /\ final_report[1].status = "DEGRADED_LLM"

\* C23 (as claimed): aggregate is never called with an empty sequence and
\* no CompositeDecision is built from zero results; a run without a plan or
\* without plan steps ends with a report and without an aggregation call.
C23_NoEmptyAggregation ==
  /\ Visited("aggregate") => specialist_decisions # <<>>
  /\ composite_decision # <<>> =>
       composite_decision[1].specialist_decisions # <<>>
  /\ (Finished /\ ("plan" \notin keys \/ plan = <<>>)) =>
       (pc = "done" /\ Reported /\ ~Visited("aggregate"))

\* ------------------------------------------ claims about the run's driver
\* C24 (as claimed): once the stop flag is set no further node of the graph
\* begins and no further simulation call is made (evaluator calls already
\* in flight may still finish); the run does not complete normally, and
\* the only thing the worker still reports is the abort.
C24_StopHaltsRun ==
  [][control_stop =>
       /\ ~Finished =>
            /\ trace' = trace
            /\ Len(SelectSeq(calls', LAMBDA c : c.agent = "simulation"))
                 = Len(SimulationCalls)
            /\ pc' # "done"
       /\ q' # q => q' = Append(q, "aborted")]_vars

\* C25 (as claimed): a run waiting on a collaborator call that never
\* returns is ended by the run-level deadline: it is finalized and a
\* FinalReport with the degraded status is produced.
C25_DeadlineForcesFinalize ==
  (pc = "hung") ~>
    (Reported /\ final_report[1].status \in {"DEGRADED_LLM", "PARTIAL_SUCCESS"})

Count(seq, x) == Cardinality({i \in 1..Len(seq) : seq[i] = x})

SimulationDone ==
  pc \in {"finalize", "stream_end", "persist_write", "persist_replace",
          "persisted", "done"}

\* C26 (as claimed): the callback is handed one event per phase
\* transition: plan once the plan node ran, one specialist_done per
\* specialist result, one constraint per constraint check, one turn per
\* simulation step once the resolution ended, and done with the report.
C26_EventPerPhase ==
  /\ Visited("plan") => Count(events, "plan") = 1
  /\ Count(events, "specialist_done") = Len(specialist_decisions)
  /\ Count(events, "constraint") = Len(ConstraintCalls)
  /\ SimulationDone => Count(events, "turn") = Len(SimulationCalls)
  /\ (pc = "done" /\ Reported) => Count(events, "done") = 1

PlannerCalls == SelectSeq(calls, LAMBDA c : c.agent = "planner")

\* C27: the planner is called exactly once per run: once as soon as the
\* plan node has run, and never again, whatever the retries of the
\* constraint/judgment loop and however the run ends.
C27_PlannerOnce ==
  /\ Len(PlannerCalls) = (IF Visited("plan") THEN 1 ELSE 0)
  /\ Finished => Len(PlannerCalls) = 1

\* C27 witness: a run that returned its report after three judgment calls,
\* two of them rejections that led back to the constraint check.
C27_Witness ==
  /\ pc = "done" /\ Reported
  /\ Len(JudgmentCalls) = 3
  /\ Len(ConstraintCalls) = 3
  /\ Len(PlannerCalls) = 1

\* C28: the record at the final path is never partially written; it is
\* complete, and the only file left under runs/, before 'done' is emitted
\* and before manager_run returns its report; once complete it is never
\* changed again.
C28_RecordWrittenOnce ==
  /\ [](/\ runs_file.report_path # "partial"
        /\ (Count(events, "done") > 0 \/ ret = "report") =>
             /\ runs_file.report_path = "complete"
             /\ runs_file.tmp_path = "absent")
  /\ [][runs_file.report_path = "complete" => runs_file' = runs_file]_vars

\* C28 witness: manager_run has returned its report after emitting 'done',
\* with the record in place.
C28_Witness ==
  /\ pc = "done" /\ ret = "report"
  /\ Count(events, "done") = 1
  /\ runs_file = [report_path |-> "complete", tmp_path |-> "absent"]

\* ------------------------------------- claims about the specialist results
Variants(sd) == {v \in {"decision", "fault", "signal"} : sd[v] # <<>>}

\* C30: every SpecialistDecision a run_step produced, and every one handed
\* to aggregate, has exactly one of decision, fault and signal set, so the
\* decided, signaled and faulted entries are disjoint and cover the input.
C30_ExactlyOneVariant ==
  /\ \A i \in 1..Len(tasks) :
       tasks[i].done => Cardinality(Variants(tasks[i].result[1])) = 1
  /\ \A i \in 1..Len(specialist_decisions) :
       Cardinality(Variants(specialist_decisions[i])) = 1
  /\ Len(Decided) + Len(Signaled) + Len(Faulted) = Len(specialist_decisions)

\* C30 witness: aggregate is about to be called on two results, one from
\* an agent that returned a decision and one from a step that failed.
C30_Witness ==
  /\ pc = "aggregate"
  /\ Len(specialist_decisions) = 2
  /\ specialist_decisions[1].decision[1].recommended_action = "proceed"
  /\ StepFailed(2)

\* ------------------------------- claims about aggregate's standard path
\* aggregate takes the standard path: some entry is decided and the
\* degraded path does not apply
StandardPath == Decided # <<>> /\ ~(Len(Decided) < 2 /\ Signaled # <<>>)

DecidedTypes == [i \in 1..Len(Decided) |-> Decided[i].decision[1].decision_type]

\* the most frequent element of a non-empty sequence, the one occurring
\* first winning a tie
MostFrequent(seq) ==
  LET first == CHOOSE i \in 1..Len(seq) :
                 /\ \A j \in 1..Len(seq) : Count(seq, seq[j]) <= Count(seq, seq[i])
                 /\ \A j \in 1..(i - 1) : Count(seq, seq[j]) < Count(seq, seq[i])
  IN seq[first]

ExpectedType ==
  IF TwiceMedian(DecidedRisks) >= 14 THEN "REJECT"
  ELSE IF \A i \in 1..Len(DecidedTypes) : DecidedTypes[i] = "APPROVE"
  THEN "APPROVE"
  ELSE MostFrequent(DecidedTypes)

\* C32 (as claimed): on the standard path without ABORT quorum the primary
\* decision_type is REJECT when the median risk is >= 7, else APPROVE when
\* every decided entry approves, else the most frequent decision_type of
\* the decided entries (first occurrence winning a tie).
C32_MajorityType ==
  (AggCalled /\ StandardPath /\ ~Quorum) =>
    /\ AggReturned
    /\ Primary.decision_type = ExpectedType

Abs(x) == IF x < 0 THEN -x ELSE x

\* index of the first decided entry whose risk is closest to the median
ClosestToMedian ==
  LET Dist(i) == Abs(2 * DecidedRisks[i] - TwiceMedian(DecidedRisks))
  IN CHOOSE i \in 1..Len(Decided) :
       /\ \A j \in 1..Len(Decided) : Dist(i) <= Dist(j)
       /\ \A j \in 1..(i - 1) : Dist(j) > Dist(i)

\* C33 (as claimed): on the standard path the composite's
\* recommended_action is that of the decided entry whose risk_score is
\* closest to the median risk, the earliest such entry winning a tie.
C33_RepresentativeAction ==
  (AggCalled /\ StandardPath /\ ~Quorum) =>
    /\ AggReturned
    /\ Primary.recommended_action =
         Decided[ClosestToMedian].decision[1].recommended_action

\* C34 (as claimed): on the standard path consensus_score is the share of
\* decided entries whose type is the primary type and confidence is the
\* mean confidence of the decided entries; whenever aggregate is called it
\* returns a composite whose consensus_score and confidence are in [0,1]
\* (0..100 as percentages).
C34_ConsensusAndConfidence ==
  AggCalled =>
    /\ AggReturned
    /\ composite_decision[1].consensus_score \in 0..100
    /\ Primary.confidence \in 0..100
    /\ StandardPath =>
         /\ composite_decision[1].consensus_score * Len(Decided) =
              100 * Count(DecidedTypes, Primary.decision_type)
         /\ Primary.confidence * Len(Decided) =
              SumSeq([i \in 1..Len(Decided) |-> Decided[i].decision[1].confidence])

\* C35 (as claimed): on the degraded path aggregate returns a Decision
\* whose confidence is 0.3 + 0.1 * |signaled| capped at 1.0, for any
\* number of signaled entries.
C35_ConfidenceCapped ==
  (AggCalled /\ Len(Decided) < 2 /\ Signaled # <<>>) =>
    /\ AggReturned
    /\ Primary.confidence = Min(100, 30 + 10 * Len(Signaled))

\* ------------------------------------------ claims about the whole run
\* C31 (as claimed): the timestamps of the FinalReport hold, besides the
\* start, one entry for every phase boundary the run crossed: one per node
\* executed (plan, specialists, aggregate, every constraint check, every
\* judgment, the resolution, finalize).
C31_TimestampPerPhase ==
  Reported =>
    /\ "start" \in final_report[1].timestamps
    /\ "end" \in final_report[1].timestamps
    /\ Cardinality(final_report[1].timestamps \ {"start"}) = Len(trace)

InRetryLoop == pc \in {"constraint", "judgment"} \/ Visited("constraint")

\* C36: plan, specialists and aggregate each run at most once per run and
\* every step's agent is called at most once; from the first constraint
\* check on, whatever the retries, the plan, the specialist results and
\* the composite decision stay as they are.
C36_RetryFrame ==
  /\ [](/\ Count(trace, "plan") <= 1
        /\ Count(trace, "specialists") <= 1
        /\ Count(trace, "aggregate") <= 1
        /\ \A i \in 1..Len(plan) : EvaluatorCallsOf(i) <= 1)
  /\ [][InRetryLoop =>
          /\ plan' = plan
          /\ specialist_decisions' = specialist_decisions
          /\ composite_decision' = composite_decision]_vars

\* C36 witness: the third constraint check and judgment have run on the
\* composite decision that the single aggregation produced.
C36_Witness ==
  /\ pc = "finalize"
  /\ Count(trace, "constraint") = 3
  /\ Count(trace, "judgment") = 3
  /\ Count(trace, "aggregate") = 1
  /\ composite_decision # <<>>

ErrorRecorded == "status" \in keys /\ status = "SYSTEM_ERROR"

\* C37: a SYSTEM_ERROR recorded in the state is never replaced, and a
\* report made after it has status SYSTEM_ERROR; a report that carries the
\* fallback decision has status SYSTEM_ERROR.
C37_ErrorStatusSticks ==
  /\ [](Reported =>
          /\ ErrorRecorded => final_report[1].status = "SYSTEM_ERROR"
          /\ final_report[1].final_decision = FallbackDecision =>
               final_report[1].status = "SYSTEM_ERROR")
  /\ [][ErrorRecorded => status' = "SYSTEM_ERROR"]_vars

\* C37 witness: three judgments rejected without a final_decision, so the
\* report carries the fallback decision and no node recorded a status.
C37_Witness ==
  /\ Reported
  /\ "status" \notin keys
  /\ Len(JudgmentCalls) = 3
  /\ final_report[1].final_decision = FallbackDecision
  /\ final_report[1].status = "SYSTEM_ERROR"

\* C37 second witness: a judgment failed after a rejection that carried a
\* decision; the report has that decision and status SYSTEM_ERROR.
C37_WitnessRecorded ==
  /\ Reported
  /\ ErrorRecorded
  /\ final_report[1].final_decision # FallbackDecision
  /\ final_report[1].status = "SYSTEM_ERROR"

NegMoves ==
  SelectSeq(negotiation.history, LAMBDA e : e[2] # "seed")

\* position after i in the rotation over n actors
Successor(i, n) == IF i = n THEN 1 ELSE i + 1

NegStepOk ==
  LET n == negotiation
      m == negotiation'
      k == Len(n.actors)
  IN /\ m.turn_count >= n.turn_count
     /\ m.actors = n.actors /\ m.max_turns = n.max_turns
     /\ (n.pc = "agent_move" /\ m.pc # "raised") =>
          /\ m.pc = "next_turn"
          /\ Len(m.history) = Len(n.history) + 1
          /\ SubSeq(m.history, 1, Len(n.history)) = n.history
          /\ m.current_actor = n.current_actor /\ m.turn_count = n.turn_count
     /\ n.pc # "agent_move" => m.history = n.history
     /\ (n.pc = "next_turn" /\ m.pc # "raised") =>
          /\ \E i \in 1..k : /\ n.actors[i] = n.current_actor
                             /\ m.current_actor = n.actors[Successor(i, k)]
          /\ m.turn_count =
               IF m.current_actor = n.actors[1] THEN n.turn_count + 1
               ELSE n.turn_count
          /\ m.pc = IF m.turn_count >= n.max_turns THEN "finalize"
                    ELSE "agent_move"

NegRoundRobin ==
  \A j \in 1..(Len(NegMoves) - 1) :
    /\ NegMoves[j][1] <= NegMoves[j + 1][1]
    /\ \E i \in 1..Len(negotiation.actors) :
         /\ negotiation.actors[i] = NegMoves[j][2]
         /\ negotiation.actors[Successor(i, Len(negotiation.actors))]
              = NegMoves[j + 1][2]

\* C39: the negotiation graph terminates for every non-empty actor set and
\* finite max_turns; the actors move in round-robin order, turn_count never
\* decreases and grows by exactly 1 when the rotation wraps to the first
\* actor, finalize is reached exactly when turn_count >= max_turns after
\* next_turn, and each agent_move appends one history entry and leaves the
\* earlier entries unchanged.
C39_NegotiationTerminates ==
  /\ [](negotiation.pc # "idle" => NegRoundRobin)
  /\ [][NegStepOk]_vars
  /\ <>(negotiation.pc \in {"END", "raised"})

C39_Witness ==
  /\ negotiation.pc = "END"
  /\ Len(negotiation.actors) >= 2
  /\ Len(NegMoves) >= 2 * Len(negotiation.actors)
  /\ negotiation.turn_count = negotiation.max_turns

Succeeded(a) == a.kind \in {"ok", "hit"}

LlmAttemptsOk ==
  LET a == llm.attempts
      n == Len(a)
  IN /\ n <= llm.retries + 1
     /\ \A k \in 1..n :
          /\ Succeeded(a[k]) =>
               /\ k = n
               /\ llm.pc = "returned"
               /\ llm.ret = [kind |-> a[k].kind, attempt |-> k - 1]
          /\ a[k].wrote => a[k].generated
          /\ a[k].generated => a[k].called
          /\ a[k].kind = "hit" => ~a[k].called
     /\ llm.pc = "returned" => (n >= 1 /\ Succeeded(a[n]))
     /\ llm.pc = "raised" <=>
          (n = llm.retries + 1 /\ \A k \in 1..n : ~Succeeded(a[k]))
     /\ llm.pc = "raised" =>
          llm.ret = [kind |-> a[n].kind, attempt |-> n - 1]

\* C40: generate_with_retries makes at most retries+1 attempts, returns the
\* result of the first attempt that succeeds and makes no further attempt,
\* raises the exception of the last attempt exactly when all retries+1
\* attempts failed; the cache is written only after a successful generation
\* and a cache hit returns without a backend call.
C40_RetriesBounded ==
  /\ [](llm.pc # "idle" => LlmAttemptsOk)
  /\ [][llm'.cache # llm.cache =>
          (llm.pc = "write_cache" /\ llm.cur.generated)]_vars

C40_Witness ==
  /\ llm.pc = "returned"
  /\ Len(llm.attempts) = llm.retries + 1
  /\ Len(llm.attempts) >= 2
  /\ llm.attempts[1].kind = "timeout" /\ llm.attempts[1].wrote
  /\ llm.attempts[Len(llm.attempts)].kind = "hit"
====
